---- MODULE Spec2Model ----
(***************************************************************************)
(* ApplyBuddy (streamlit_app.py): the API-key session state, the Generate  *)
(* run (scrape, CV read, generation call, cover-letter extraction,         *)
(* export) and the pure helpers it is built from.                          *)
(*                                                                         *)
(* Text is a sequence of characters.  A character is a one-character       *)
(* string, except "sz", which stands for the single character U+00DF       *)
(* (sharp s), whose str.upper() is the two characters "SS", and the other  *)
(* named characters of NonAscii, each one character outside ASCII.         *)
(***************************************************************************)
EXTENDS Integers, Sequences, FiniteSets, TLC

VARIABLES
    api_key,          \* st.session_state.api_key
    show_api_input,   \* st.session_state.show_api_input
    temp_api_key,     \* st.session_state.temp_api_key (the text input's value)
    pc,               \* position of the script run
    job_url,          \* text of the URL input
    cv_file,          \* the uploaded file, or None
    tone_choice,      \* the tone selectbox
    model_label,      \* the model selectbox
    job_desc,         \* RUN block local
    cv_content,       \* RUN block local
    output,           \* RUN block local
    cover_letter_text,\* RUN block local
    errors,           \* st.error messages of the run, in order
    warnings,         \* st.warning messages of the run, in order
    api_calls,        \* client.chat.completions.create calls of the run
    http_requests,    \* requests.get calls of the run
    downloads,        \* download buttons rendered by the run
    fetch_failed,     \* history: the GET of the run raised or had a bad status
    cv_raised,        \* history: the CV extraction of the run raised
    gen_raised,       \* history: the generation call of the run raised
    arg,              \* argument of a single call of a helper
    ret               \* whether it was called, and its result

vars == <<api_key, show_api_input, temp_api_key, pc, job_url, cv_file,
          tone_choice, model_label, job_desc, cv_content, output,
          cover_letter_text, errors, warnings, api_calls, http_requests,
          downloads, fetch_failed, cv_raised, gen_raised, arg, ret>>

\* Python's None, a local not yet assigned, and the value of an expression
\* that ends in an exception nothing catches: texts no program text equals
None == <<"None">>
NotRun == <<"NotRun">>
Raised == <<"Raised">>

\* ---------------------------------------------------------------- bounds
\* pieces a completion text is made of
MaxPieces == 4
\* top-level nodes of a fetched document
MaxNodes == 2
\* characters of a PDF export text
MaxPdfLen == 3

\* ------------------------------------------------------------ str helpers
Min(S) == CHOOSE m \in S : \A n \in S : m <= n
Max(S) == CHOOSE m \in S : \A n \in S : m >= n

RECURSIVE Concat(_)
Concat(ss) == IF ss = <<>> THEN <<>> ELSE Head(ss) \o Concat(Tail(ss))

\* characters str.strip() and str.isspace() treat as whitespace
Whitespace == {" ", "\n", "\t", "\r"}

\* str.strip()
Strip(s) ==
    LET keep == {i \in 1..Len(s) : s[i] \notin Whitespace}
    IN  IF keep = {} THEN <<>> ELSE SubSeq(s, Min(keep), Max(keep))

\* str.upper() of one character
UpperChar(c) ==
    CASE c = "a" -> <<"A">> [] c = "c" -> <<"C">> [] c = "e" -> <<"E">>
      [] c = "i" -> <<"I">> [] c = "l" -> <<"L">> [] c = "m" -> <<"M">>
      [] c = "n" -> <<"N">> [] c = "o" -> <<"O">> [] c = "p" -> <<"P">>
      [] c = "r" -> <<"R">> [] c = "t" -> <<"T">> [] c = "v" -> <<"V">>
      [] c = "x" -> <<"X">> [] c = "y" -> <<"Y">>
      [] c = "sz" -> <<"S", "S">>
      [] OTHER -> <<c>>

\* str.upper()
Upper(s) == Concat([i \in 1..Len(s) |-> UpperChar(s[i])])

\* str.lower() of one character (the characters file names are made of)
LowerChar(c) ==
    CASE c = "P" -> "p" [] c = "D" -> "d" [] c = "F" -> "f" [] OTHER -> c

\* str.lower()
Lower(s) == [i \in 1..Len(s) |-> LowerChar(s[i])]

\* str.startswith(prefix)
StartsWith(s, prefix) ==
    Len(s) >= Len(prefix) /\ SubSeq(s, 1, Len(prefix)) = prefix

\* str.endswith(suffix)
EndsWith(s, suffix) ==
    Len(s) >= Len(suffix) /\ SubSeq(s, Len(s) - Len(suffix) + 1, Len(s)) = suffix

\* str.find(sub): the lowest 0-based index where sub occurs, or -1
Find(s, sub) ==
    LET hits == {i \in 0..(Len(s) - Len(sub)) : SubSeq(s, i + 1, i + Len(sub)) = sub}
    IN  IF hits = {} THEN -1 ELSE Min(hits)

\* sub in s
Contains(s, sub) == Find(s, sub) # -1

\* s[a:b] for a, b >= 0
Slice(s, a, b) ==
    LET hi == IF b < Len(s) THEN b ELSE Len(s)
    IN  IF a >= hi THEN <<>> ELSE SubSeq(s, a + 1, hi)

\* s[a:] for a >= 0
SliceFrom(s, a) == Slice(s, a, Len(s))

\* sep.join(parts)
RECURSIVE Join(_, _)
Join(parts, sep) ==
    IF parts = <<>> THEN <<>>
    ELSE IF Len(parts) = 1 THEN parts[1]
    ELSE parts[1] \o sep \o Join(Tail(parts), sep)

\* s.split(sep)
RECURSIVE Split(_, _)
Split(s, sep) ==
    LET i == Find(s, sep)
    IN  IF i = -1 THEN <<s>>
        ELSE <<SubSeq(s, 1, i)>> \o Split(SliceFrom(s, i + Len(sep)), sep)

\* str.splitlines(): "\n", "\r" and "\r\n" end a line
RECURSIVE Splitlines(_)
Splitlines(s) ==
    LET brk == {i \in 1..Len(s) : s[i] \in {"\n", "\r"}}
    IN  IF brk = {} THEN (IF s = <<>> THEN <<>> ELSE <<s>>)
        ELSE LET i == Min(brk)
                 j == IF s[i] = "\r" /\ i < Len(s) /\ s[i + 1] = "\n" THEN i + 1 ELSE i
             IN  <<SubSeq(s, 1, i - 1)>> \o Splitlines(SubSeq(s, j + 1, Len(s)))

\* ----------------------------------------------------- the output splitter
COVER_LETTER == <<"C","O","V","E","R"," ","L","E","T","T","E","R",":">>
CV_IMPROVEMENT == <<"C","V"," ","I","M","P","R","O","V","E","M","E","N","T">>

\* lines 249-260: the cover letter extracted from the completion text
ExtractCoverLetter(out) ==
    IF Contains(Upper(out), COVER_LETTER)
    THEN LET upper == Upper(out)
             start == Find(upper, COVER_LETTER)
             end   == Find(upper, CV_IMPROVEMENT)
         IN  IF end = -1
             THEN Strip(SliceFrom(out, start + Len(COVER_LETTER)))
             ELSE Strip(Slice(out, start + Len(COVER_LETTER), end))
    ELSE out

\* the pieces completion texts are drawn from
Pieces ==
    { COVER_LETTER,
      <<"C","o","v","e","r"," ","l","e","t","t","e","r",":">>,
      CV_IMPROVEMENT,
      <<"c","v"," ","i","m","p","r","o","v","e","m","e","n","t">>,
      <<"x">>, <<"Y">>, <<" ">>, <<"sz">> }

RECURSIVE PieceSeqs(_)
PieceSeqs(n) ==
    IF n = 0 THEN {<<>>}
    ELSE LET shorter == PieceSeqs(n - 1)
         IN  shorter \cup {Append(p, q) : p \in {r \in shorter : Len(r) = n - 1}, q \in Pieces}

Completions == {Concat(p) : p \in PieceSeqs(MaxPieces)}

\* a character-by-character, case-insensitive occurrence of marker at 1-based i
MatchesAt(s, i, marker) ==
    /\ i + Len(marker) - 1 <= Len(s)
    /\ \A k \in 1..Len(marker) : UpperChar(s[i + k - 1]) = <<marker[k]>>

Occurrences(s, marker, from) == {i \in from..Len(s) : MatchesAt(s, i, marker)}

ContainsCI(s, marker) == Occurrences(s, marker, 1) # {}

\* the text from just after the first "COVER LETTER:" to just before the next
\* "CV IMPROVEMENT" after it (or to the end), trimmed
SectionAfterMarker(s) ==
    LET after == Min(Occurrences(s, COVER_LETTER, 1)) + Len(COVER_LETTER)
        next  == Occurrences(s, CV_IMPROVEMENT, after)
    IN  IF next = {} THEN Strip(SubSeq(s, after, Len(s)))
        ELSE Strip(SubSeq(s, after, Min(next) - 1))

\* ------------------------------------------------------------ the scraper
SCRAPE_ERROR == <<"[","S","c","r","a","p","e"," ","e","r","r","o","r","]">>
CV_READ_ERROR == <<"[","C","V"," ","r","e","a","d"," ","e","r","r","o","r","]">>

\* a parsed document is a sequence of nodes: text nodes and elements
Leaf(t) == [kind |-> "text", s |-> t]
Elem(n, k) == [kind |-> "tag", name |-> n, kids |-> k]

\* line 73: the elements removed before text extraction
\* variant: noscript elements are kept
DecomposedNoNoscript == {"script", "style"}
Decomposed == {"script", "style", "noscript"}

\* lines 73-74: soup([...]) finds the elements at any depth; decompose() removes
\* each with everything in it
RECURSIVE Decompose(_)
Decompose(nodes) ==
    IF nodes = <<>> THEN <<>>
    ELSE LET n == Head(nodes)
         IN  IF n.kind = "text" THEN <<n>> \o Decompose(Tail(nodes))
             ELSE IF n.name \in Decomposed THEN Decompose(Tail(nodes))
             ELSE <<Elem(n.name, Decompose(n.kids))>> \o Decompose(Tail(nodes))

\* the strings of a tree, in document order
RECURSIVE Strings(_)
Strings(nodes) ==
    IF nodes = <<>> THEN <<>>
    ELSE LET n == Head(nodes)
         IN  (IF n.kind = "text" THEN <<n.s>> ELSE Strings(n.kids))
                 \o Strings(Tail(nodes))

\* line 76: soup.get_text(separator)
GetText(nodes, separator) == Join(Strings(nodes), separator)

\* line 77: [line.strip() for line in text.splitlines() if line.strip()]
RECURSIVE StrippedLines(_)
StrippedLines(ls) ==
    IF ls = <<>> THEN <<>>
    ELSE (IF Strip(Head(ls)) # <<>> THEN <<Strip(Head(ls))>> ELSE <<>>)
             \o StrippedLines(Tail(ls))

\* lines 70-78: the visible lines of a fetched document
VisibleLines(doc) ==
    StrippedLines(Splitlines(GetText(Decompose(doc), <<"\n">>)))

\* line 66: resp.raise_for_status() raises for a 4xx or 5xx status
\* variant: only server errors raise
RaisesOnlyFor5xx(status) == status >= 500
RaisesForStatus(status) == status >= 400

\* the outcome of the GET: exc is the transport error requests.get raises (or
\* None), status and body are those of the response when there is one.
\* lines 60-67: the except clause is entered
FetchFails(net) == net.exc # None \/ RaisesForStatus(net.status)

\* an HTTP failure: a transport error or a 4xx/5xx status
HttpFailure(net) == net.exc # None \/ net.status \in 400..599

\* str(e) of the exception caught at line 67
ErrorText(net) ==
    IF net.exc # None THEN net.exc
    ELSE IF net.status = 404 THEN <<"4","0","4">> ELSE <<"5","0","0">>

\* lines 58-78
scrape_job_description(net) ==
    IF FetchFails(net) THEN SCRAPE_ERROR \o <<" ">> \o ErrorText(net)
    ELSE Join(VisibleLines(net.body), <<"\n">>)

\* the documents a fetch can return
Texts == { <<"a">>, <<" ","b"," ">>, <<"c","\n"," ","\r","\n","d"," ">> }
Inner == {Leaf(t) : t \in Texts}
             \cup {Elem(n, <<Leaf(t)>>) : n \in {"b", "script"}, t \in Texts}
Nodes == {Leaf(t) : t \in Texts}
             \cup {Elem(n, <<k>>) : n \in {"p", "script", "style", "noscript"}, k \in Inner}

RECURSIVE NodeSeqs(_)
NodeSeqs(n) ==
    IF n = 0 THEN {<<>>}
    ELSE LET shorter == NodeSeqs(n - 1)
         IN  shorter \cup {Append(p, q) : p \in {r \in shorter : Len(r) = n - 1}, q \in Nodes}

Documents == NodeSeqs(MaxNodes)

ErrorPage == <<Elem("p", <<Leaf(<<"n","o">>)>>)>>

TransportErrors == { <<"t","i","m","e","d"," ","o","u","t">>, <<"d","n","s">> }

Responses(docs) ==
    [exc : TransportErrors, status : {0}, body : {<<>>}]
        \cup [exc : {None}, status : {404, 500}, body : {ErrorPage}]
        \cup [exc : {None}, status : {200}, body : docs]

\* the strings of the text nodes that have no decomposed ancestor
RECURSIVE VisibleStrings(_)
VisibleStrings(nodes) ==
    IF nodes = <<>> THEN <<>>
    ELSE LET n == Head(nodes)
         IN  (IF n.kind = "text" THEN <<n.s>>
              ELSE IF n.name \in {"script", "style", "noscript"} THEN <<>>
              ELSE VisibleStrings(n.kids))
                 \o VisibleStrings(Tail(nodes))

\* the lines of one string: its maximal runs without a line break
RECURSIVE LinesOf(_)
LinesOf(s) ==
    LET brk == {i \in 1..Len(s) : s[i] \in {"\n", "\r"}}
    IN  IF brk = {} THEN <<s>>
        ELSE <<SubSeq(s, 1, Min(brk) - 1)>> \o LinesOf(SubSeq(s, Min(brk) + 1, Len(s)))

\* the non-blank lines of the visible strings, each trimmed, in document order
RECURSIVE ExpectedLines(_)
ExpectedLines(strs) ==
    IF strs = <<>> THEN <<>>
    ELSE LET ls == LinesOf(Head(strs))
             nb == {i \in 1..Len(ls) : \E k \in 1..Len(ls[i]) : ls[i][k] \notin Whitespace}
             F[i \in 0..Len(ls)] ==
                 IF i = 0 THEN <<>>
                 ELSE IF i \in nb THEN Append(F[i - 1], Strip(ls[i])) ELSE F[i - 1]
         IN  F[Len(ls)] \o ExpectedLines(Tail(strs))

CharsOf(strs) == UNION {{strs[i][k] : k \in 1..Len(strs[i])} : i \in 1..Len(strs)}

\* ---------------------------------------------------------- the CV reader
PDF_EXT == <<".","p","d","f">>

\* an uploaded file: its name, its bytes (a character each, or "BAD" for a byte
\* sequence UTF-8 cannot decode) and, when the bytes are a PDF document, the
\* text of its pages (else None)
File(n, b, p) == [name |-> n, bytes |-> b, pages |-> p]

\* bytes.decode("utf-8", errors="ignore")
DecodeIgnore(b) == SelectSeq(b, LAMBDA u : u # "BAD")

\* lines 82-84: the PDF branch is taken
IsPdfName(file) == EndsWith(Lower(file.name), PDF_EXT)

\* line 87: fitz.open raises when the bytes are no PDF document
ExtractionRaises(file) == IsPdfName(file) /\ file.pages = None

\* lines 80-96
read_cv(file) ==
    IF IsPdfName(file)
    THEN IF file.pages = None
         THEN CV_READ_ERROR \o <<" ">> \o <<"b","a","d">>
         ELSE Strip(Concat(file.pages))
    ELSE Strip(DecodeIgnore(file.bytes))

\* ------------------------------------------------------ the generation call
\* lines 199-206
model_choices ==
    [l \in {"GPT-5 (input $1.25 / output $10)",
            "GPT-5 mini (input $0.25 / output $2)",
            "GPT-5 nano (input $0.05 / output $0.40)",
            "GPT-4o mini (input $0.15 / output $0.60)",
            "GPT-4.5 (input $75 / output $150)",
            "o1-pro (input $150 / output $600)"} |->
        CASE l = "GPT-5 (input $1.25 / output $10)" -> <<"g","p","t","-","5">>
          [] l = "GPT-5 mini (input $0.25 / output $2)" ->
                 <<"g","p","t","-","5","-","m","i","n","i">>
          [] l = "GPT-5 nano (input $0.05 / output $0.40)" ->
                 <<"g","p","t","-","5","-","n","a","n","o">>
          [] l = "GPT-4o mini (input $0.15 / output $0.60)" ->
                 <<"g","p","t","-","4","o","-","m","i","n","i">>
          [] l = "GPT-4.5 (input $75 / output $150)" ->
                 <<"g","p","t","-","4",".","5">>
          [] l = "o1-pro (input $150 / output $600)" ->
                 <<"o","1","-","p","r","o">>]

\* lines 192-195
Tones == {"Professional", "Friendly", "Confident", "Humble", "Creative"}

\* line 213: the module-level model_name
model_name_of(label) == model_choices[label]

\* line 236: model_name.strip() or model_default; model_default is defined
\* nowhere, so the right operand raises NameError
SelectedModel(model_name) ==
    IF Strip(model_name) # <<>> THEN Strip(model_name) ELSE Raised

\* line 128: the model of the request is the module-level model_name
\* variant: a fixed identifier is sent
RequestModelFixed(model, model_name) == <<"g","p","t","-","4","o","-","m","i","n","i">>
RequestModel(model, model_name) == model_name

\* lines 100-133: the request generate_cover_letter_and_cv_tips sends; prompt
\* holds the three values the template interpolates, model_arg is the argument
ChatRequest(job_description, cv_text, tone, model, model_name) ==
    [model     |-> RequestModel(model, model_name),
     system    |-> "You are a professional career coach.",
     prompt    |-> [tone |-> tone, job_description |-> job_description,
                    cv_text |-> cv_text],
     model_arg |-> model]

\* --------------------------------------------------------------- exporters
\* lines 137-144: the paragraphs of the document
save_as_docx(text) == Split(text, <<"\n", "\n">>)

\* characters outside ASCII
SmartChars == {"rsquo", "lsquo", "ldquo", "rdquo", "ndash", "mdash", "bull", "hellip"}
NonAscii == SmartChars \cup {"sz", "eacute", "cjk"}
\* characters of Latin-1, which a core font can render
Latin1Extra == {"sz", "eacute"}

\* lines 157-166
\* variant: the table has no entry for the ellipsis
SmartMapNoEllipsis(c) ==
    CASE c = "rsquo" -> <<"'">> [] c = "lsquo" -> <<"'">>
      [] c = "ldquo" -> <<"\"">> [] c = "rdquo" -> <<"\"">>
      [] c = "ndash" -> <<"-">> [] c = "mdash" -> <<"-">>
      [] c = "bull" -> <<"*">>
      [] OTHER -> <<c>>
SMART_MAP(c) ==
    CASE c = "rsquo" -> <<"'">> [] c = "lsquo" -> <<"'">>
      [] c = "ldquo" -> <<"\"">> [] c = "rdquo" -> <<"\"">>
      [] c = "ndash" -> <<"-">> [] c = "mdash" -> <<"-">>
      [] c = "bull" -> <<"*">> [] c = "hellip" -> <<".", ".", ".">>
      [] OTHER -> <<c>>

\* str.translate(SMART_MAP)
Translate(s) == Concat([i \in 1..Len(s) |-> SMART_MAP(s[i])])

\* .encode("ascii", "ignore").decode("ascii")
EncodeAsciiIgnore(s) == SelectSeq(s, LAMBDA c : c \notin NonAscii)

\* lines 155-167
sanitize_ascii(s) == EncodeAsciiIgnore(Translate(s))

\* the state of FONT_PATH: no file, a file add_font rejects, a usable font
Fonts == {"missing", "unreadable", "ok"}

\* lines 169-177: the font set and the text written
FontAndText(text, font) ==
    IF font = "ok" THEN [font |-> "DejaVu", safe_text |-> text]
    ELSE [font |-> "Arial", safe_text |-> sanitize_ascii(text)]

\* line 180: multi_cell raises for a character a core font cannot encode
CellRaises(font, line) ==
    font = "Arial" /\ \E k \in 1..Len(line) : line[k] \in NonAscii \ Latin1Extra

\* lines 149-185: the font set, the cells written, and whether a cell raised
save_as_pdf(text, font) ==
    LET ft    == FontAndText(text, font)
        cells == Split(ft.safe_text, <<"\n">>)
    IN  [raised |-> \E i \in 1..Len(cells) : CellRaises(ft.font, cells[i]),
         font   |-> ft.font,
         cells  |-> cells]

\* ------------------------------------------------------- the API key panel
\* what the user types into the key input
KeyTexts == { <<>>, <<" ">>, <<"s","k">>, <<" ","s","k","\n">> }

\* line 32: the truth value of a str
Truthy(s) == s # None /\ s # <<>>

\* line 33
StoredKey(temp) == Strip(temp)

\* the script is not in the middle of a run
Settled == pc \in {"idle", "done", "stopped", "crashed"}

\* a rerun starts from an empty page
ClearRun ==
    /\ job_desc' = NotRun /\ cv_content' = NotRun /\ output' = NotRun
    /\ cover_letter_text' = NotRun
    /\ errors' = <<>> /\ api_calls' = <<>> /\ http_requests' = 0
    /\ downloads' = {}
    /\ fetch_failed' = FALSE /\ cv_raised' = FALSE /\ gen_raised' = FALSE

\* line 42: the user edits the key input (shown while show_api_input)
TypeApiKey ==
    /\ Settled /\ show_api_input
    /\ \E t \in KeyTexts : temp_api_key' = t
    /\ pc' = "idle" /\ warnings' = <<>> /\ ClearRun
    /\ UNCHANGED <<api_key, show_api_input, job_url, cv_file, tone_choice,
                   model_label, arg, ret>>

\* lines 31-35, 43: the Save API Key button
SaveApiKey ==
    /\ Settled /\ show_api_input
    /\ IF Truthy(temp_api_key)
       THEN /\ api_key' = StoredKey(temp_api_key)
            /\ show_api_input' = FALSE
            /\ temp_api_key' = None
       ELSE UNCHANGED <<api_key, show_api_input, temp_api_key>>
    /\ pc' = "idle" /\ warnings' = <<>> /\ ClearRun
    /\ UNCHANGED <<job_url, cv_file, tone_choice, model_label, arg, ret>>

\* lines 37-38, 46: the Change API Key button; the rerun renders the key
\* input again, empty
ChangeApiKey ==
    /\ Settled /\ ~show_api_input
    /\ show_api_input' = TRUE
    /\ temp_api_key' = <<>>
    /\ pc' = "idle" /\ warnings' = <<>> /\ ClearRun
    /\ UNCHANGED <<api_key, job_url, cv_file, tone_choice, model_label, arg, ret>>

\* ---------------------------------------------------------- the Generate run
NoFile == File(None, None, None)

URLs == { <<>>, <<"u">> }

Files ==
    { NoFile,
      File(<<"a",".","t","x","t">>, <<" ","c","BAD","v"," ">>, None),
      File(<<"a",".","t","x","t">>, CV_READ_ERROR \o <<" ","x">>, None),
      File(<<"a",".","P","D","F">>, <<"c","v">>, None),
      File(<<"a",".","p","d","f">>, <<"%","P","D","F">>, <<<<"p","1","\n">>, <<"p","2","\n">>>>),
      File(<<"a",".","p","d","f">>, <<"%","P","D","F">>, <<CV_READ_ERROR, <<"x">>>>) }

\* the pages the posting URL can answer with
Pages ==
    { <<Elem("script", <<Leaf(<<"j","s">>)>>), Elem("p", <<Leaf(<<" ","j","o","b"," ">>)>>)>>,
      <<Elem("p", <<Leaf(SCRAPE_ERROR \o <<" ","j","o","b">>)>>)>>,
      <<>> }

\* the completion texts the generation call can return
Replies ==
    { COVER_LETTER \o <<"\n","x","rsquo","\n","\n","Y","hellip","\n">> \o CV_IMPROVEMENT \o <<"x">>,
      CV_IMPROVEMENT \o <<"x"," ">> \o COVER_LETTER \o <<" ","Y">>,
      <<" ","x","\n","\n","cjk","\n">> }

GenOutcomes ==
    [raises : {TRUE}, e : {<<"q","u","o","t","a">>}, content : {<<>>}]
        \cup [raises : {FALSE}, e : {<<>>}, content : Replies]

\* lines 227, 232: the sentinel checks
\* variant: the scrape sentinel is not checked
NeverScrapeError(s) == FALSE
IsScrapeError(s) == StartsWith(s, SCRAPE_ERROR)
IsCvReadError(s) == StartsWith(s, CV_READ_ERROR)

\* line 241
OPENAI_ERROR == <<"[","O","p","e","n","A","I"," ","e","r","r","o","r","]">>
\* variant: the exception is caught and not reported
SwallowOpenAIError(errs, e) == errs
ReportOpenAIError(errs, e) == Append(errs, OPENAI_ERROR \o <<" ">> \o e)

\* lines 220-223: the Generate button, with the inputs as they stand
ClickGenerate ==
    /\ Settled /\ Truthy(api_key)
    /\ \E u \in URLs, f \in Files, t \in Tones, l \in DOMAIN model_choices :
         /\ job_url' = u /\ cv_file' = f /\ tone_choice' = t /\ model_label' = l
         /\ IF u = <<>> \/ f = NoFile
            THEN /\ warnings' = <<"Please provide both a job posting URL and a CV file.">>
                 /\ pc' = "stopped"
            ELSE /\ warnings' = <<>>
                 /\ pc' = "scrape"
    /\ ClearRun
    /\ UNCHANGED <<api_key, show_api_input, temp_api_key, arg, ret>>

\* lines 226-229
ScrapeStep ==
    /\ pc = "scrape"
    /\ \E net \in Responses(Pages) :
         LET text == scrape_job_description(net)
         IN  /\ job_desc' = text
             /\ http_requests' = http_requests + 1
             /\ fetch_failed' = HttpFailure(net)
             /\ IF IsScrapeError(text)
                THEN errors' = Append(errors, text) /\ pc' = "stopped"
                ELSE errors' = errors /\ pc' = "read_cv"
    /\ UNCHANGED <<api_key, show_api_input, temp_api_key, job_url, cv_file,
                   tone_choice, model_label, cv_content, output,
                   cover_letter_text, warnings, api_calls, downloads,
                   cv_raised, gen_raised, arg, ret>>

\* lines 231-234
ReadCvStep ==
    /\ pc = "read_cv"
    /\ LET text == read_cv(cv_file)
       IN  /\ cv_content' = text
           /\ cv_raised' = ExtractionRaises(cv_file)
           /\ IF IsCvReadError(text)
              THEN errors' = Append(errors, text) /\ pc' = "stopped"
              ELSE errors' = errors /\ pc' = "generate"
    /\ UNCHANGED <<api_key, show_api_input, temp_api_key, job_url, cv_file,
                   tone_choice, model_label, job_desc, output,
                   cover_letter_text, warnings, api_calls, http_requests,
                   downloads, fetch_failed, gen_raised, arg, ret>>

\* lines 236-242
GenerateStep ==
    /\ pc = "generate"
    /\ LET model_name == model_name_of(model_label)
           model      == SelectedModel(model_name)
       IN  IF model = Raised
           THEN /\ pc' = "crashed"
                /\ UNCHANGED <<output, errors, api_calls, gen_raised>>
           ELSE \E o \in GenOutcomes :
                  /\ api_calls' = Append(api_calls,
                         ChatRequest(job_desc, cv_content, tone_choice, model, model_name))
                  /\ gen_raised' = o.raises
                  /\ IF o.raises
                     THEN /\ errors' = ReportOpenAIError(errors, o.e)
                          /\ output' = output
                          /\ pc' = "stopped"
                     ELSE /\ errors' = errors
                          /\ output' = o.content
                          /\ pc' = "extract"
    /\ UNCHANGED <<api_key, show_api_input, temp_api_key, job_url, cv_file,
                   tone_choice, model_label, job_desc, cv_content,
                   cover_letter_text, warnings, http_requests, downloads,
                   fetch_failed, cv_raised, arg, ret>>

\* lines 249-260
ExtractStep ==
    /\ pc = "extract"
    /\ cover_letter_text' = ExtractCoverLetter(output)
    /\ pc' = "export"
    /\ UNCHANGED <<api_key, show_api_input, temp_api_key, job_url, cv_file,
                   tone_choice, model_label, job_desc, cv_content, output,
                   errors, warnings, api_calls, http_requests, downloads,
                   fetch_failed, cv_raised, gen_raised, arg, ret>>

Download(name, data) == [file_name |-> name, data |-> data]

\* lines 262-276: the Word button is rendered before the PDF is built
ExportStep ==
    /\ pc = "export"
    /\ \E font \in Fonts :
         LET docx == Download("cover_letter.docx",
                              [paragraphs |-> save_as_docx(cover_letter_text)])
             pdf  == save_as_pdf(cover_letter_text, font)
         IN  IF pdf.raised
             THEN downloads' = {docx} /\ pc' = "crashed"
             ELSE downloads' = {docx, Download("cover_letter.pdf", pdf)} /\ pc' = "done"
    /\ UNCHANGED <<api_key, show_api_input, temp_api_key, job_url, cv_file,
                   tone_choice, model_label, job_desc, cv_content, output,
                   cover_letter_text, errors, warnings, api_calls,
                   http_requests, fetch_failed, cv_raised, gen_raised, arg, ret>>

\* lines 26-29 and a first script run, which stops at line 50
Fresh ==
    /\ api_key = None /\ show_api_input = TRUE /\ temp_api_key = <<>>
    /\ pc = "idle"
    /\ job_url = <<>> /\ cv_file = NoFile
    /\ tone_choice = "Professional"
    /\ model_label = "GPT-5 (input $1.25 / output $10)"
    /\ job_desc = NotRun /\ cv_content = NotRun /\ output = NotRun
    /\ cover_letter_text = NotRun
    /\ errors = <<>> /\ warnings = <<>> /\ api_calls = <<>>
    /\ http_requests = 0 /\ downloads = {}
    /\ fetch_failed = FALSE /\ cv_raised = FALSE /\ gen_raised = FALSE

NotCalled == [done |-> FALSE, value |-> <<>>]
Returned(v) == [done |-> TRUE, value |-> v]

Init == Fresh /\ arg = <<>> /\ ret = NotCalled

Next ==
    \/ TypeApiKey
    \/ SaveApiKey
    \/ ChangeApiKey
    \/ ClickGenerate
    \/ ScrapeStep
    \/ ReadCvStep
    \/ GenerateStep
    \/ ExtractStep
    \/ ExportStep

Spec == Init /\ [][Next]_vars

\* ------------------------------------------- the helpers, one call of each
appvars == <<api_key, show_api_input, temp_api_key, pc, job_url, cv_file,
             tone_choice, model_label, job_desc, cv_content, output,
             cover_letter_text, errors, warnings, api_calls, http_requests,
             downloads, fetch_failed, cv_raised, gen_raised>>

\* the cover-letter extraction on any completion text
InitSplit == Fresh /\ arg \in Completions /\ ret = NotCalled
SplitCall ==
    /\ ~ret.done
    /\ ret' = Returned(ExtractCoverLetter(arg))
    /\ UNCHANGED <<arg, appvars>>
SpecSplit == InitSplit /\ [][SplitCall]_vars

\* scrape_job_description on any outcome of the GET
InitScrape == Fresh /\ arg \in Responses(Documents) /\ ret = NotCalled
ScrapeCall ==
    /\ ~ret.done
    /\ ret' = Returned(scrape_job_description(arg))
    /\ UNCHANGED <<arg, appvars>>
SpecScrape == InitScrape /\ [][ScrapeCall]_vars

\* save_as_pdf on any text, in any state of the font file
PdfChars == SmartChars \cup {"a", "\n", "eacute", "cjk"}

RECURSIVE TextsUpTo(_)
TextsUpTo(n) ==
    IF n = 0 THEN {<<>>}
    ELSE LET shorter == TextsUpTo(n - 1)
         IN  shorter \cup {Append(p, c) : p \in {r \in shorter : Len(r) = n - 1}, c \in PdfChars}

InitPdf ==
    Fresh /\ arg \in [text : TextsUpTo(MaxPdfLen), font : Fonts] /\ ret = NotCalled
PdfCall ==
    /\ ~ret.done
    /\ ret' = Returned(save_as_pdf(arg.text, arg.font))
    /\ UNCHANGED <<arg, appvars>>
SpecPdf == InitPdf /\ [][PdfCall]_vars

\* ------------------------------------------------------------------ claims

\* C1: a run whose fetch failed or whose CV extraction raised shows that
\* failure's message and stops; it makes no generation call.
NoGenerationAfterAcquisitionFailure ==
    (fetch_failed \/ cv_raised) =>
        /\ api_calls = <<>>
        /\ pc = "stopped"
        /\ errors = <<IF fetch_failed THEN job_desc ELSE cv_content>>
        /\ fetch_failed => StartsWith(job_desc, SCRAPE_ERROR)
        /\ cv_raised => StartsWith(cv_content, CV_READ_ERROR)

\* C1 witness: the fetch succeeded, the CV extraction raised, the run stopped
CvFailureHalted ==
    cv_raised /\ ~fetch_failed /\ pc = "stopped" /\ http_requests = 1

\* C2: a run with a scrape failure, a CV read failure or a generation
\* exception shows exactly one error message, stops, and renders no download;
\* downloads are rendered only by runs whose three steps all succeeded.
SingleErrorAndNoArtifacts ==
    /\ (fetch_failed \/ cv_raised \/ gen_raised) =>
           pc = "stopped" /\ Len(errors) = 1 /\ downloads = {}
    /\ downloads # {} =>
           /\ ~fetch_failed /\ ~cv_raised /\ ~gen_raised
           /\ http_requests = 1 /\ cv_content # NotRun /\ Len(api_calls) = 1
           /\ output # NotRun /\ errors = <<>>

\* C2 witness: the generation call was made and raised, the run stopped
GenerationFailureHalted ==
    gen_raised /\ pc = "stopped" /\ Len(api_calls) = 1

\* C3: the stored API key is None or non-empty; in particular it is
\* non-empty whenever the key input is hidden.
AcceptedKeyNonEmpty ==
    /\ api_key = None \/ api_key # <<>>
    /\ ~show_api_input => api_key # None /\ api_key # <<>>

\* C4: when the completion contains "COVER LETTER:" (any case), the extracted
\* text is the trimmed text between the first such marker and the next
\* "CV IMPROVEMENT" (any case) after it, or the end of the text.
CoverLetterIsSectionAfterMarker ==
    (ret.done /\ ContainsCI(arg, COVER_LETTER)) =>
        ret.value = SectionAfterMarker(arg)

\* C5: when the completion does not contain "COVER LETTER:" (any case), the
\* extracted text is the whole completion, trimmed.
WholeTextTrimmedWithoutMarker ==
    (ret.done /\ ~ContainsCI(arg, COVER_LETTER)) => ret.value = Strip(arg)

\* C6: the model of every generation request is the model argument of
\* generate_cover_letter_and_cv_tips and the identifier the lookup table
\* gives for the selected label.
RequestUsesSelectedModel ==
    \A i \in 1..Len(api_calls) :
        /\ api_calls[i].model = api_calls[i].model_arg
        /\ api_calls[i].model = model_choices[model_label]

\* C6 witness: a request was sent with a label other than the default chosen
RequestWithNonDefaultModel ==
    /\ Len(api_calls) = 1
    /\ model_label = "o1-pro (input $150 / output $600)"

\* C7: once scrape_job_description has returned, exactly one GET was issued,
\* and if the GET failed (transport error, 4xx, 5xx) the result starts with
\* "[Scrape error]".
ScrapeFailureIsSentinel ==
    /\ job_desc # NotRun => http_requests = 1
    /\ fetch_failed => job_desc # NotRun /\ StartsWith(job_desc, SCRAPE_ERROR)
    /\ pc # "crashed"

\* C7 witness: the GET answered 404 and the scraper returned the sentinel
ScrapeFailedOnStatus ==
    /\ fetch_failed
    /\ job_desc = SCRAPE_ERROR \o <<" ", "4", "0", "4">>

\* C8: on a successful fetch the result is the non-blank lines of the text
\* outside script, style and noscript elements, trimmed, in document order,
\* joined by newlines; no line of it is empty or has outer whitespace, and
\* every character of it occurs in text outside those elements.
ScrapeOutputIsVisibleLines ==
    (ret.done /\ ~HttpFailure(arg)) =>
        LET visible == VisibleStrings(arg.body)
            lines   == Split(ret.value, <<"\n">>)
        IN  /\ ret.value = Join(ExpectedLines(visible), <<"\n">>)
            /\ ret.value # <<>> =>
                   \A i \in 1..Len(lines) : lines[i] # <<>> /\ Strip(lines[i]) = lines[i]
            /\ {ret.value[k] : k \in 1..Len(ret.value)} \subseteq CharsOf(visible) \cup {"\n"}

\* C8 witness: a script inside a noscript, then text of three lines, one blank
ScrapedAroundScript ==
    /\ ret.done /\ ~HttpFailure(arg)
    /\ arg.body = <<Elem("noscript", <<Elem("script", <<Leaf(<<"a">>)>>)>>),
                    Leaf(<<"c","\n"," ","\r","\n","d"," ">>)>>
    /\ ret.value = <<"c", "\n", "d">>

\* C9: with the font file missing or rejected, save_as_pdf does not raise and
\* writes the text with each smart-punctuation character replaced by its
\* ASCII equivalent, every other non-ASCII character removed and the ASCII
\* characters kept in order; with the font usable it writes the text as is.
AsciiEquivalent(c) ==
    CASE c \in {"rsquo", "lsquo"} -> <<"'">>
      [] c \in {"ldquo", "rdquo"} -> <<"\"">>
      [] c \in {"ndash", "mdash"} -> <<"-">>
      [] c = "bull" -> <<"*">>
      [] c = "hellip" -> <<".", ".", ".">>

RECURSIVE ExpectedAscii(_)
ExpectedAscii(s) ==
    IF s = <<>> THEN <<>>
    ELSE (IF Head(s) \in SmartChars THEN AsciiEquivalent(Head(s))
          ELSE IF Head(s) \in NonAscii THEN <<>>
          ELSE <<Head(s)>>) \o ExpectedAscii(Tail(s))

PdfFallbackSanitizes ==
    ret.done =>
        LET written == Join(ret.value.cells, <<"\n">>)
        IN  /\ ~ret.value.raised
            /\ arg.font # "ok" =>
                   /\ written = ExpectedAscii(arg.text)
                   /\ \A k \in 1..Len(written) : written[k] \notin NonAscii
            /\ arg.font = "ok" => written = arg.text

\* C9 witness: no font file; an ellipsis, a CJK character and a letter
PdfWrittenWithoutFont ==
    /\ ret.done /\ arg.font = "missing"
    /\ arg.text = <<"hellip", "cjk", "a">>
    /\ ret.value.cells = << <<".", ".", ".", "a">> >>

\* C10: a run stops before the generation call, after scraping, only if the
\* fetch failed or the CV extraction raised.
HaltsOnlyOnRealFailure ==
    (pc = "stopped" /\ job_desc # NotRun /\ api_calls = <<>>) =>
        (fetch_failed \/ cv_raised)

====
